---- MODULE Spec2Model ----
(***************************************************************************)
(* A model of render.py of the e-ink calendar: the aggregation of calendar *)
(* events into days (eventsToDays), the layout of the agenda column and    *)
(* of the forecast strip (renderFrame), and the run of main() with its     *)
(* change cache, repeated by an external timer.                            *)
(*                                                                         *)
(* Date-times are whole hours since midnight of day 0.  A date is the day  *)
(* number, datetime.date() is the integer division by HoursPerDay, and a   *)
(* timedelta's .days is the floor of the difference divided by a day.      *)
(***************************************************************************)
EXTENDS Integers, Sequences, FiniteSets, TLC

VARIABLES
    clock,       \* datetime.now(), in hours
    pc,          \* position of the run in main(), or of a function application
    options,     \* the parsed command line (main: options)
    events,      \* main: events, the sorted list getEvents returned
    days,        \* main: days
    weather,     \* main: weather (present = FALSE is None)
    frame,       \* what renderFrame drew, or the exception it raised
    cachefile,   \* the pickled cache file on disk
    cached,      \* main: what the run found in the cache file (line 337)
    redraw,      \* main: redraw
    log,         \* the calls of the current run, in order
    exitcode,    \* the exit status of the finished run (-1 while it runs)
    exitreason,  \* why the run ended
    lastredraw   \* when the last frame was sent (at; -1 when a later run set out to
                 \* redraw and failed), and the --cachehours of that run and of every
                 \* run since (0: not all the same, or no cache)

vars == <<clock, pc, options, events, days, weather, frame, cachefile, cached,
          redraw, log, exitcode, exitreason, lastredraw>>

(***************************************************************************)
(* Bounds of the model.                                                    *)
(***************************************************************************)
NumTimes == 3          \* times of day an event or "now" is drawn from
MaxLook == 2           \* largest lookahead (--days) drawn for eventsToDays
MaxEvents == 3         \* longest event list drawn for eventsToDays
MaxRenderDays == 3     \* most Days drawn for the agenda layout
MaxDayEvents == 9      \* most events of one Day drawn for the agenda layout
MaxHourly == 8         \* longest three-hourly forecast series
MaxDaily == 8          \* longest daily forecast series
MaxElapsed == 3        \* hours the clock may advance over the runs of main
MaxCacheHours == 2     \* largest --cachehours drawn

(***************************************************************************)
(* Program constants.                                                      *)
(***************************************************************************)
HoursPerDay == 24
DefaultDays == 7
DefaultCacheHours == 2
bottomgutter == 400
lineheight == 22
YposStart == 20
DayGap == 6
HourlySlots == 7
NA == -1               \* the key "NA" of WeatherToMeteoGlyph
LastCode == 30

(***************************************************************************)
(* Dates and times.                                                        *)
(***************************************************************************)
DateOf(t) == t \div HoursPerDay

TimedeltaDays(a, b) == (a - b) \div HoursPerDay

TimesOfDay == { (i * HoursPerDay) \div NumTimes : i \in 0 .. NumTimes - 1 }

At(d, h) == d * HoursPerDay + h

(***************************************************************************)
(* eventsToDays.  An event is [id, start]: id is its position in the       *)
(* fetched list and stands for its summary and location.                   *)
(***************************************************************************)
suffix(d) ==
    IF 11 <= d /\ d <= 13 THEN "th"
    ELSE CASE d % 10 = 1 -> "st"
           [] d % 10 = 2 -> "nd"
           [] d % 10 = 3 -> "rd"
           [] OTHER -> "th"

\* The label of a Day: the strings "Today" and "Tomorrow", or the weekday, the
\* day number with its suffix (the model's calendar is one long month).
dateTimeAsPrettyString(dt, now) ==
    IF DateOf(dt) = DateOf(now) THEN <<"Today">>
    ELSE IF DateOf(dt) = DateOf(now) + 1 THEN <<"Tomorrow">>
    ELSE <<"Day", DateOf(dt) % 7, DateOf(dt), suffix(DateOf(dt))>>

\* A mutant: the event is compared with the first Day instead of the last.
SameDayAsFirst(ds, e) == Len(ds) > 0 /\ DateOf(e.start) = ds[1].date

\* The else branch of line 133: the event belongs to the Day that is open.
SameDayAsLast(ds, e) == Len(ds) > 0 /\ DateOf(e.start) = ds[Len(ds)].date

\* Line 135: the event that would open a Day is beyond the lookahead.
BeyondLookahead(e, daystolook, now) == TimedeltaDays(e.start, now) > daystolook

NewDay(e, now) ==
    [date |-> DateOf(e.start),
     datestring |-> dateTimeAsPrettyString(e.start, now),
     events |-> <<e>>]

RECURSIVE eventsToDaysFrom(_, _, _, _, _)
eventsToDaysFrom(evs, i, ds, daystolook, now) ==
    IF i > Len(evs) THEN ds
    ELSE IF ~SameDayAsLast(ds, evs[i])
         THEN IF BeyondLookahead(evs[i], daystolook, now) THEN ds
              ELSE eventsToDaysFrom(evs, i + 1, Append(ds, NewDay(evs[i], now)),
                                    daystolook, now)
         ELSE eventsToDaysFrom(evs, i + 1,
                  [ds EXCEPT ![Len(ds)].events = Append(@, evs[i])],
                  daystolook, now)

eventsToDays(evs, daystolook, now) == eventsToDaysFrom(evs, 1, <<>>, daystolook, now)

(***************************************************************************)
(* renderFrame: the agenda column (lines 184-201).  A drawn line is        *)
(* [day, ev, ypos]: the index of its Day, the index of its event in the    *)
(* Day (0 for the Day's label) and the cursor it was drawn at.             *)
(***************************************************************************)
\* A mutant: the budget is the gutter itself, not the gutter less one line.
InGutter(ypos) == ypos < bottomgutter

\* Lines 188 and 193.
InBudget(ypos) == ypos < bottomgutter - lineheight

RECURSIVE drawEvents(_, _, _, _)
drawEvents(evs, j, d, st) ==
    IF j > Len(evs) THEN st
    ELSE IF InBudget(st.ypos)
         THEN drawEvents(evs, j + 1, d,
                  [lines |-> Append(st.lines, [day |-> d, ev |-> j, ypos |-> st.ypos]),
                   ypos |-> st.ypos + lineheight])
         ELSE drawEvents(evs, j + 1, d, st)

RECURSIVE drawDays(_, _, _)
drawDays(ds, d, st) ==
    IF d > Len(ds) THEN st
    ELSE IF InBudget(st.ypos)
         THEN LET label == [lines |-> Append(st.lines, [day |-> d, ev |-> 0, ypos |-> st.ypos]),
                            ypos |-> st.ypos + lineheight]
                  after == drawEvents(ds[d].events, 1, d, label)
              IN  drawDays(ds, d + 1, [after EXCEPT !.ypos = @ + DayGap])
         ELSE drawDays(ds, d + 1, st)

drawAgenda(ds) == drawDays(ds, 1, [lines |-> <<>>, ypos |-> YposStart]).lines

(***************************************************************************)
(* renderFrame: the forecast strip (lines 203-236).  The series are        *)
(* Python lists: Index(data, i) is data[i], with positions from 0.         *)
(***************************************************************************)
WeatherToMeteoGlyph ==
    [c \in {NA} \cup (0 .. LastCode) |->
        CASE c = NA -> ")"
          [] c = 0 -> "C"
          [] c = 1 -> "B"
          [] c = 2 -> "I"
          [] c = 3 -> "H"
          [] c = 4 -> ")"
          [] c \in {5, 6} -> "M"
          [] c = 7 -> "N"
          [] c = 8 -> "Y"
          [] c \in 9 .. 12 -> "Q"
          [] c \in 13 .. 15 -> "R"
          [] c \in 16 .. 21 -> "X"
          [] c \in 22 .. 24 -> "U"
          [] c \in 25 .. 27 -> "W"
          [] c \in 28 .. 30 -> "P"]

\* A mutant: an unknown code falls back to the "not available" glyph.
LookupGlyphOrDefault(code) ==
    IF code \in DOMAIN WeatherToMeteoGlyph
    THEN [found |-> TRUE, glyph |-> WeatherToMeteoGlyph[code]]
    ELSE [found |-> TRUE, glyph |-> ")"]

\* WeatherToMeteoGlyph[code] (lines 213 and 226): a KeyError for a missing key.
LookupGlyph(code) ==
    IF code \in DOMAIN WeatherToMeteoGlyph
    THEN [found |-> TRUE, glyph |-> WeatherToMeteoGlyph[code]]
    ELSE [found |-> FALSE, glyph |-> ""]

InRange(data, i) == 0 <= i /\ i < Len(data)

Index(data, i) == data[i + 1]

\* Line 208.
filteredforecasts(hourly, now) == SelectSeq(hourly, LAMBDA x : x.ts > now)

RECURSIVE drawHourly(_, _, _)
drawHourly(ff, i, st) ==
    IF i >= HourlySlots \/ st.err # "none" THEN st
    ELSE IF i < Len(ff)
         THEN LET g == LookupGlyph(Index(ff, i).code)
              IN  IF ~g.found THEN [st EXCEPT !.err = "KeyError"]
                  ELSE drawHourly(ff, i + 1,
                           [st EXCEPT !.hourly = Append(@,
                               [time |-> Index(ff, i).ts % HoursPerDay,
                                glyph |-> g.glyph,
                                temp |-> Index(ff, i).feels])])
         ELSE drawHourly(ff, i + 1, st)

\* A mutant: the first three pairs of the series.
FirstThreePairs == <<0, 2, 4>>

\* Line 224: for i in [2,4,6].
DailyPositions == <<2, 4, 6>>

RECURSIVE drawDaily(_, _, _)
drawDaily(data, k, st) ==
    IF k > Len(DailyPositions) \/ st.err # "none" THEN st
    ELSE LET i == DailyPositions[k]
         IN  IF ~InRange(data, i) THEN [st EXCEPT !.err = "IndexError"]
             ELSE LET g == LookupGlyph(Index(data, i).code)
                  IN  IF ~g.found THEN [st EXCEPT !.err = "KeyError"]
                      ELSE IF ~InRange(data, i + 1) THEN [st EXCEPT !.err = "IndexError"]
                      ELSE drawDaily(data, k + 1,
                               [st EXCEPT !.daily = Append(@,
                                   [weekday |-> DateOf(Index(data, i).ts) % 7,
                                    glyph |-> g.glyph,
                                    max |-> Index(data, i).max,
                                    min |-> Index(data, i + 1).min])])

NoStrip == [err |-> "none", hourly |-> <<>>, daily |-> <<>>]

drawWeather(w, now) ==
    IF ~w.present THEN NoStrip
    ELSE drawDaily(w.daily, 1, drawHourly(filteredforecasts(w.hourly, now), 0, NoStrip))

\* The frame: what was drawn, or the exception that ended renderFrame.
renderFrame(ds, w, now) ==
    LET strip == drawWeather(w, now)
    IN  [err |-> strip.err, lines |-> drawAgenda(ds),
         hourly |-> strip.hourly, daily |-> strip.daily]

NoFrame == [err |-> "none", lines |-> <<>>, hourly |-> <<>>, daily |-> <<>>]

NoWeather == [present |-> FALSE, hourly |-> <<>>, daily |-> <<>>]

(***************************************************************************)
(* The command line (lines 266-281).  input, redinput, output and cache    *)
(* are TRUE when the option was given.                                     *)
(***************************************************************************)
DefaultOptions ==
    [input |-> FALSE, redinput |-> FALSE, output |-> FALSE, noclear |-> FALSE,
     noweather |-> FALSE, cache |-> FALSE, cachehours |-> DefaultCacheHours,
     days |-> DefaultDays]

OptionSets ==
    { o \in [input : BOOLEAN, redinput : BOOLEAN, output : BOOLEAN, noclear : BOOLEAN,
             noweather : BOOLEAN, cache : BOOLEAN, cachehours : 1 .. MaxCacheHours,
             days : {DefaultDays}] :
        ~o.cache => o.cachehours = DefaultCacheHours }

(***************************************************************************)
(* The change cache (lines 333-348).  The file is absent, holds a pickled  *)
(* (days, time) pair ("ok"), or is damaged: "garbage" does not unpickle,   *)
(* "wrongshape" unpickles to something that is not a pair, "badtime" is a  *)
(* pair whose second part is no datetime.                                  *)
(***************************************************************************)
NoRecord == [kind |-> "absent", days |-> <<>>, ts |-> 0]

NoRedraw == [at |-> -1, hours |-> 0]

Damaged == {"garbage", "wrongshape", "badtime"}

\* A mutant: the cache is still fresh at the very end of its time to live.
IsFreshInclusive(cacheddays, cachedtime, ds, now, hours) ==
    cacheddays = ds /\ now <= cachedtime + hours

\* Line 338.
IsFresh(cacheddays, cachedtime, ds, now, hours) ==
    cacheddays = ds /\ now < cachedtime + hours

\* Lines 337-338 raise: pickle.load fails, the value does not unpack into a
\* pair, or (the days being equal) cachedtime + timedelta is a TypeError.
CacheRaises(file, ds) ==
    \/ file.kind \in {"garbage", "wrongshape"}
    \/ file.kind = "badtime" /\ file.days = ds

\* Lines 335-344: redraw after the cache was looked at.
RedrawAfterCache(file, ds, now, hours) ==
    ~(file.kind = "ok" /\ IsFresh(file.days, file.ts, ds, now, hours))

\* A mutant: a cache that could not be read is left as it is.
StoreCacheIfReadable(file, ds, now) ==
    IF file.kind \in Damaged THEN file ELSE [kind |-> "ok", days |-> ds, ts |-> now]

\* Line 348.
StoreCache(file, ds, now) == [kind |-> "ok", days |-> ds, ts |-> now]

(***************************************************************************)
(* What the collaborators of main() may return.                            *)
(***************************************************************************)
StartClock == At(1, HoursPerDay - 2)

Event(i, t) == [id |-> i, start |-> t]

\* The calendar: nothing, one event tomorrow morning, or a second one the day after.
MainAgendas ==
    { <<>>,
      <<Event(1, At(2, 9))>>,
      <<Event(1, At(2, 9)), Event(2, At(3, 9))>> }

HourlySample(i, k, p, c, now) ==
    [ts |-> now + 3 * (i - k), code |-> IF i = p THEN c ELSE 7, feels |-> 10 + i]

DailySample(i, q, c, now) ==
    [ts |-> At(DateOf(now) + ((i - 1) \div 2), 0), code |-> IF i = q THEN c ELSE 7,
     max |-> 20 + i, min |-> i]

\* A three-hourly series of n samples, the first k of them not after now, with
\* code c at position p (from 1; 0: nowhere) and "Cloudy" elsewhere.
HourlySeries(n, k, p, c, now) == [i \in 1 .. n |-> HourlySample(i, k, p, c, now)]

\* A daily series of m samples: day, night, day, night, ...
DailySeries(m, q, c, now) == [i \in 1 .. m |-> DailySample(i, q, c, now)]

Forecast(h, d) == [present |-> TRUE, hourly |-> h, daily |-> d]

ProbeCodes == ((NA - 1) .. (LastCode + 1)) \cup {999}

\* The forecasts drawn for renderFrame: the three-hourly series varies beside a
\* full daily one, or the daily series varies beside a short three-hourly one.
Forecasts(now) ==
    { Forecast(HourlySeries(n, k, p, c, now), DailySeries(MaxDaily, 0, 7, now)) :
        <<n, k, p, c>> \in { x \in (0 .. MaxHourly) \X (0 .. MaxHourly) \X (0 .. MaxHourly)
                                   \X ProbeCodes : x[2] <= x[1] /\ x[3] <= x[1] } }
    \cup
    { Forecast(HourlySeries(n, 0, 0, 7, now), DailySeries(m, q, c, now)) :
        <<n, m, q, c>> \in { x \in (0 .. 1) \X (0 .. MaxDaily) \X (0 .. MaxDaily)
                                   \X ProbeCodes : x[3] <= x[2] } }

\* The forecasts a run of main() may fetch: a good one, one with an unknown
\* weather code, and one whose daily series has three pairs only.
MainForecasts(now) ==
    { Forecast(HourlySeries(1, 0, 0, 7, now), DailySeries(8, 0, 7, now)),
      Forecast(HourlySeries(1, 0, 1, 999, now), DailySeries(8, 0, 7, now)),
      Forecast(HourlySeries(1, 0, 0, 7, now), DailySeries(6, 0, 7, now)) }

(***************************************************************************)
(* Applying eventsToDays and renderFrame to drawn inputs.                  *)
(***************************************************************************)
Today == DateOf(StartClock)

StartTimes == { At(d, h) : d \in Today - 1 .. Today + MaxLook + 1, h \in TimesOfDay }

SortedEventLists ==
    { [i \in 1 .. n |-> Event(i, f[i])] :
        <<n, f>> \in { x \in UNION { {m} \X [1 .. m -> StartTimes] : m \in 0 .. MaxEvents } :
                         \A i \in 1 .. x[1] - 1 : x[2][i] <= x[2][i + 1] } }

\* A Day list as eventsToDays builds it, from the number of events of each Day.
DayList(shape, now) ==
    [d \in 1 .. Len(shape) |->
        [date |-> DateOf(now) + d - 1,
         datestring |-> dateTimeAsPrettyString(At(DateOf(now) + d - 1, 0), now),
         events |-> [j \in 1 .. shape[d] |-> Event(j, At(DateOf(now) + d - 1, 0))]]]

DayShapes == UNION { [1 .. n -> 1 .. MaxDayEvents] : n \in 0 .. MaxRenderDays }

Idle ==
    /\ events = <<>>
    /\ days = <<>>
    /\ weather = NoWeather
    /\ frame = NoFrame
    /\ cached = NoRecord
    /\ redraw = TRUE
    /\ log = <<>>
    /\ exitcode = -1
    /\ exitreason = "running"

InitDays ==
    /\ events \in SortedEventLists
    /\ clock \in { At(Today, h) : h \in TimesOfDay }
    /\ options \in { [DefaultOptions EXCEPT !.days = d] : d \in {MaxLook - 1, MaxLook} }
    /\ pc = "eventsToDays"
    /\ days = <<>>
    /\ weather = NoWeather
    /\ frame = NoFrame
    /\ cachefile = NoRecord
    /\ cached = NoRecord
    /\ redraw = TRUE
    /\ log = <<>>
    /\ exitcode = -1
    /\ exitreason = "running"
    /\ lastredraw = NoRedraw

ApplyEventsToDays ==
    /\ pc = "eventsToDays"
    /\ days' = eventsToDays(events, options.days, clock)
    /\ pc' = "aggregated"
    /\ UNCHANGED <<clock, options, events, weather, frame, cachefile, cached, redraw,
                   log, exitcode, exitreason, lastredraw>>

SpecDays == InitDays /\ [][ApplyEventsToDays]_vars

InitRender ==
    /\ clock = At(Today, 9)
    /\ \/ days \in { DayList(s, clock) : s \in DayShapes } /\ weather = NoWeather
       \/ days = <<>> /\ weather \in Forecasts(clock)
    /\ options = DefaultOptions
    /\ pc = "renderFrame"
    /\ events = <<>>
    /\ frame = NoFrame
    /\ cachefile = NoRecord
    /\ cached = NoRecord
    /\ redraw = TRUE
    /\ log = <<>>
    /\ exitcode = -1
    /\ exitreason = "running"
    /\ lastredraw = NoRedraw

ApplyRenderFrame ==
    /\ pc = "renderFrame"
    /\ frame' = renderFrame(days, weather, clock)
    /\ pc' = "rendered"
    /\ UNCHANGED <<clock, options, events, days, weather, cachefile, cached, redraw,
                   log, exitcode, exitreason, lastredraw>>

SpecRender == InitRender /\ [][ApplyRenderFrame]_vars

(***************************************************************************)
(* main(), run again and again by an external timer.  While no run is in   *)
(* progress the clock advances and the cache file may be damaged.          *)
(***************************************************************************)
Init ==
    /\ clock = StartClock
    /\ pc = "idle"
    /\ options = DefaultOptions
    /\ cachefile = NoRecord
    /\ lastredraw = NoRedraw
    /\ Idle

\* sys.exit, the end of main(), or an exception nothing catches.
Exit(code, reason) ==
    /\ pc' = "done"
    /\ exitcode' = code
    /\ exitreason' = reason

\* What a run leaves behind when its process is gone.
ToIdle ==
    /\ events' = <<>>
    /\ days' = <<>>
    /\ weather' = NoWeather
    /\ frame' = NoFrame
    /\ cached' = NoRecord
    /\ redraw' = TRUE
    /\ log' = <<>>
    /\ exitcode' = -1
    /\ exitreason' = "running"

\* The timer starts the program (line 281).
StartRun ==
    /\ pc = "idle"
    /\ options' \in OptionSets
    /\ pc' = "args"
    /\ UNCHANGED <<clock, events, days, weather, frame, cachefile, cached, redraw, log,
                   exitcode, exitreason, lastredraw>>

\* The process of a finished run is gone.
Return ==
    /\ pc = "done"
    /\ pc' = "idle"
    /\ options' = DefaultOptions
    /\ ToIdle
    /\ UNCHANGED <<clock, cachefile, lastredraw>>

\* Lines 283-285.
CheckArgs ==
    /\ pc = "args"
    /\ IF options.redinput # options.input
       THEN Exit(1, "args")
       ELSE pc' = "display" /\ UNCHANGED <<exitcode, exitreason>>
    /\ UNCHANGED <<clock, options, events, days, weather, frame, cachefile, cached,
                   redraw, log, lastredraw>>

\* Lines 287-299.
InitDisplay ==
    /\ pc = "display"
    /\ IF options.output
       THEN pc' = "begin" /\ UNCHANGED <<log, exitcode, exitreason>>
       ELSE \E linux \in BOOLEAN, waveshare \in BOOLEAN :
               IF ~linux THEN Exit(1, "platform") /\ UNCHANGED log
               ELSE IF ~waveshare THEN Exit(1, "import") /\ UNCHANGED log
               ELSE /\ log' = Append(log, "epd.init")
                    /\ pc' = "begin"
                    /\ UNCHANGED <<exitcode, exitreason>>
    /\ UNCHANGED <<clock, options, events, days, weather, frame, cachefile, cached,
                   redraw, lastredraw>>

\* Lines 301-306: the calendar is read, or the call fails and ends the run.
FetchEvents ==
    /\ pc = "begin"
    /\ ~options.input
    /\ redraw' = TRUE
    /\ \/ /\ events' \in MainAgendas
          /\ log' = Append(log, "getEvents")
          /\ pc' = "aggregate"
          /\ UNCHANGED <<exitcode, exitreason>>
       \/ Exit(1, "calendar") /\ UNCHANGED <<events, log>>
    /\ UNCHANGED <<clock, options, days, weather, frame, cachefile, cached, lastredraw>>

\* Line 307.
Aggregate ==
    /\ pc = "aggregate"
    /\ days' = eventsToDays(events, options.days, clock)
    /\ log' = Append(log, "eventsToDays")
    /\ pc' = "weather"
    /\ UNCHANGED <<clock, options, events, weather, frame, cachefile, cached, redraw,
                   exitcode, exitreason, lastredraw>>

\* Lines 309-330.  weather.json is missing, holds none of the three keys, holds
\* some of them (a KeyError at lines 323-325), or is complete.
FetchWeather ==
    /\ pc = "weather"
    /\ IF options.noweather
       THEN /\ weather' = NoWeather
            /\ pc' = "cache"
            /\ UNCHANGED <<log, exitcode, exitreason>>
       ELSE \E json \in {"missing", "nokeys", "somekeys", "complete"} :
               CASE json = "missing" ->
                       Exit(0, "weather.json missing") /\ UNCHANGED <<weather, log>>
                 [] json = "nokeys" ->
                       Exit(0, "weather.json malformed") /\ UNCHANGED <<weather, log>>
                 [] json = "somekeys" ->
                       Exit(1, "weather.json lacks a key") /\ UNCHANGED <<weather, log>>
                 [] json = "complete" ->
                       \/ /\ weather' \in MainForecasts(clock)
                          /\ log' = Append(log, "forecast")
                          /\ pc' = "cache"
                          /\ UNCHANGED <<exitcode, exitreason>>
                       \/ Exit(1, "forecast") /\ UNCHANGED <<weather, log>>
    /\ UNCHANGED <<clock, options, events, days, frame, cachefile, cached, redraw,
                   lastredraw>>

\* Lines 333-348.
CacheCheck ==
    /\ pc = "cache"
    /\ IF options.cache
       THEN /\ cached' = cachefile
            /\ redraw' = RedrawAfterCache(cachefile, days, clock, options.cachehours)
            /\ cachefile' = StoreCache(cachefile, days, clock)
            /\ log' = log \o (IF cachefile.kind # "absent" THEN <<"pickle.load">> ELSE <<>>)
                          \o (IF CacheRaises(cachefile, days) THEN <<"except">> ELSE <<>>)
                          \o <<"pickle.dump">>
            /\ lastredraw' = IF redraw'
                             THEN NoRedraw
                             ELSE [lastredraw EXCEPT
                                      !.hours = IF @ = options.cachehours THEN @ ELSE 0]
       ELSE /\ lastredraw' = NoRedraw
            /\ UNCHANGED <<cached, redraw, cachefile, log>>
    /\ pc' = "render"
    /\ UNCHANGED <<clock, options, events, days, weather, frame, exitcode, exitreason>>

\* Lines 353-355: an exception of renderFrame ends the run.
Render ==
    /\ pc = "render"
    /\ IF redraw
       THEN /\ frame' = renderFrame(days, weather, clock)
            /\ IF frame'.err # "none"
               THEN Exit(1, frame'.err) /\ UNCHANGED log
               ELSE /\ log' = Append(log, "renderFrame")
                    /\ pc' = "output"
                    /\ UNCHANGED <<exitcode, exitreason>>
       ELSE /\ pc' = "output"
            /\ UNCHANGED <<frame, log, exitcode, exitreason>>
    /\ UNCHANGED <<clock, options, events, days, weather, cachefile, cached, redraw,
                   lastredraw>>

\* Lines 301 and 356-358: the two images are opened, or one cannot be.
LoadImages ==
    /\ pc = "begin"
    /\ options.input
    /\ redraw' = TRUE
    /\ \/ /\ log' = Append(log, "Image.open")
          /\ pc' = "output"
          /\ lastredraw' = NoRedraw
          /\ UNCHANGED <<exitcode, exitreason>>
       \/ Exit(1, "image") /\ UNCHANGED <<log, lastredraw>>
    /\ UNCHANGED <<clock, options, events, days, weather, frame, cachefile, cached>>

\* A mutant: the frame is sent whatever the cache said.
SentAlways(o, r) ==
    IF ~o.output
    THEN (IF ~o.noclear THEN <<"epd.Clear">> ELSE <<>>) \o <<"epd.display", "epd.sleep">>
    ELSE <<"save-b", "save-r">>

\* Lines 360-380: the calls that send the frame.
Sent(o, r) ==
    IF ~o.output
    THEN IF r
         THEN (IF ~o.noclear THEN <<"epd.Clear">> ELSE <<>>) \o <<"epd.display", "epd.sleep">>
         ELSE <<>>
    ELSE IF r THEN <<"save-b", "save-r">> ELSE <<>>

Output ==
    /\ pc = "output"
    /\ log' = log \o Sent(options, redraw)
    /\ lastredraw' = IF redraw
                     THEN [at |-> clock,
                           hours |-> IF options.cache /\ ~options.input
                                     THEN options.cachehours ELSE 0]
                     ELSE lastredraw
    /\ Exit(0, "none")
    /\ UNCHANGED <<clock, options, events, days, weather, frame, cachefile, cached,
                   redraw>>

\* An hour passes between two runs.
Tick ==
    /\ pc = "idle"
    /\ clock < StartClock + MaxElapsed
    /\ clock' = clock + 1
    /\ UNCHANGED <<pc, options, events, days, weather, frame, cachefile, cached, redraw,
                   log, exitcode, exitreason, lastredraw>>

\* Something other than this program writes the cache file between two runs.
DamageCache ==
    /\ pc = "idle"
    /\ \E k \in Damaged :
          cachefile' = [kind |-> k,
                        days |-> IF k = "badtime" THEN cachefile.days ELSE <<>>,
                        ts |-> 0]
    /\ UNCHANGED <<clock, pc, options, events, days, weather, frame, cached, redraw, log,
                   exitcode, exitreason, lastredraw>>

Next ==
    \/ StartRun
    \/ CheckArgs
    \/ InitDisplay
    \/ FetchEvents
    \/ Aggregate
    \/ FetchWeather
    \/ CacheCheck
    \/ Render
    \/ LoadImages
    \/ Output
    \/ Return
    \/ Tick
    \/ DamageCache

Spec == Init /\ [][Next]_vars

(***************************************************************************)
(* Claims about eventsToDays, checked under SpecDays.                      *)
(***************************************************************************)
DaysAhead(t) == DateOf(t) - DateOf(clock)

RECURSIVE Flatten(_, _)
Flatten(ds, d) == IF d > Len(ds) THEN <<>> ELSE ds[d].events \o Flatten(ds, d + 1)

\* C1: eventsToDays returns no Day whose date is more than lookahead calendar
\* days after the current date; an event exactly lookahead days out is in the
\* result and one lookahead + 1 days out is not, whatever the times of day.
C1_NoDayBeyondLookahead ==
    pc = "aggregated" =>
        /\ \A d \in 1 .. Len(days) : days[d].date - DateOf(clock) <= options.days
        /\ \A i \in 1 .. Len(events) :
              /\ DaysAhead(events[i].start) = options.days =>
                    \E d \in 1 .. Len(days) : days[d].date = DateOf(events[i].start)
              /\ DaysAhead(events[i].start) = options.days + 1 =>
                    \A d \in 1 .. Len(days) : days[d].date # DateOf(events[i].start)

\* C4: for a sorted event list, the Days are in ascending date order with no
\* date repeated and no Day empty, every event of a Day starts on the Day's
\* date, the events of the Days read in order are the input list up to where
\* eventsToDays stopped, and no event within the lookahead is left out: the
\* events of one date within the lookahead are together in exactly one Day,
\* in their input order.
C4_OneDayPerDate ==
    pc = "aggregated" =>
        /\ \A d \in 1 .. Len(days) :
              /\ Len(days[d].events) >= 1
              /\ \A j \in 1 .. Len(days[d].events) :
                    DateOf(days[d].events[j].start) = days[d].date
        /\ \A d \in 1 .. Len(days) - 1 : days[d].date < days[d + 1].date
        /\ Len(Flatten(days, 1)) <= Len(events)
        /\ Flatten(days, 1) = SubSeq(events, 1, Len(Flatten(days, 1)))
        /\ \A i \in 1 .. Len(events) :
              DaysAhead(events[i].start) <= options.days => i <= Len(Flatten(days, 1))

\* Two Days that are not consecutive dates, the later one with two events.
C4_Witness ==
    /\ pc = "aggregated"
    /\ Len(days) = 2
    /\ days[2].date > days[1].date + 1
    /\ Len(days[2].events) = 2

(***************************************************************************)
(* Claims about renderFrame, checked under SpecRender.                     *)
(***************************************************************************)
RECURSIVE AllLines(_, _)
AllLines(ds, d) ==
    IF d > Len(ds) THEN <<>>
    ELSE <<<<d, 0>>>> \o [j \in 1 .. Len(ds[d].events) |-> <<d, j>>] \o AllLines(ds, d + 1)

DrawnLines == [i \in 1 .. Len(frame.lines) |-> <<frame.lines[i].day, frame.lines[i].ev>>]

\* C5: every Day label and event line drawn is drawn at a cursor below the
\* budget, ypos < bottomgutter - lineheight, and the lines drawn are the first
\* lines of the agenda in reading order: after a line that was dropped no
\* label or event line of that Day or of a later Day is drawn.
C5_TruncationIsFinal ==
    pc = "rendered" =>
        /\ \A i \in 1 .. Len(frame.lines) : frame.lines[i].ypos < bottomgutter - lineheight
        /\ Len(DrawnLines) <= Len(AllLines(days, 1))
        /\ DrawnLines = SubSeq(AllLines(days, 1), 1, Len(DrawnLines))

\* A Day whose label is drawn and whose last event is dropped, with a Day after it.
C5_Witness ==
    /\ pc = "rendered"
    /\ Len(frame.lines) > 0
    /\ LET last == frame.lines[Len(frame.lines)]
       IN  /\ last.day < Len(days)
           /\ last.ev >= 1
           /\ last.ev < Len(days[last.day].events)

KnownCodes == {NA} \cup (0 .. LastCode)

Min(a, b) == IF a < b THEN a ELSE b

Shown == filteredforecasts(weather.hourly, clock)

NumShown == Min(HourlySlots, Len(Shown))

\* C7: every code in 0..30 and the "unavailable" key has a glyph in the table
\* and 7 has "N"; every forecast slot drawn shows the table's glyph of its
\* sample's code; and renderFrame ends with a KeyError, drawing no slot for
\* it, when a sample it shows has a code outside the table.
C7_GlyphTableIsClosed ==
    /\ \A c \in KnownCodes : c \in DOMAIN WeatherToMeteoGlyph
    /\ WeatherToMeteoGlyph[7] = "N"
    /\ 999 \notin DOMAIN WeatherToMeteoGlyph
    /\ pc = "rendered" /\ weather.present =>
        /\ Len(frame.hourly) <= NumShown
        /\ \A i \in 1 .. Len(frame.hourly) :
              /\ Shown[i].code \in KnownCodes
              /\ frame.hourly[i].glyph = WeatherToMeteoGlyph[Shown[i].code]
        /\ \A k \in 1 .. Len(frame.daily) :
              /\ weather.daily[2 * k + 1].code \in KnownCodes
              /\ frame.daily[k].glyph = WeatherToMeteoGlyph[weather.daily[2 * k + 1].code]
        /\ (\E i \in 1 .. NumShown : Shown[i].code \notin KnownCodes) =>
              frame.err = "KeyError"
        /\ (\E k \in 1 .. 3 : /\ 2 * k + 1 <= Len(weather.daily)
                              /\ weather.daily[2 * k + 1].code \notin KnownCodes) =>
              frame.err # "none"
        /\ frame.err = "none" => Len(frame.hourly) = NumShown /\ Len(frame.daily) = 3

\* A slot was drawn, then a sample with code 999 ended renderFrame.
C7_Witness ==
    /\ pc = "rendered"
    /\ weather.present
    /\ frame.err = "KeyError"
    /\ Len(frame.hourly) >= 1
    /\ Len(frame.hourly) < NumShown
    /\ Shown[Len(frame.hourly) + 1].code = 999

AllCodesKnown ==
    /\ \A i \in 1 .. Len(weather.hourly) : weather.hourly[i].code \in KnownCodes
    /\ \A i \in 1 .. Len(weather.daily) : weather.daily[i].code \in KnownCodes

\* The daily slot built from the samples at list positions p and p + 1.
SlotOfPair(p) ==
    [weekday |-> DateOf(weather.daily[p + 1].ts) % 7,
     glyph |-> WeatherToMeteoGlyph[weather.daily[p + 1].code],
     max |-> weather.daily[p + 1].max,
     min |-> weather.daily[p + 2].min]

\* C8 as stated: a daily series of at least three (even, odd) pairs, all codes
\* known, gives three daily slots without an error, each from an even
\* position and the odd position after it.
C8_ThreePairsSuffice ==
    pc = "rendered" /\ weather.present /\ AllCodesKnown /\ Len(weather.daily) >= 6 =>
        /\ frame.err = "none"
        /\ Len(frame.daily) = 3
        /\ \A k \in 1 .. 3 :
              \E p \in {x \in 0 .. Len(weather.daily) - 2 : x % 2 = 0} :
                  frame.daily[k] = SlotOfPair(p)

\* C8, amended: a daily series of at least eight samples, all codes known,
\* gives three daily slots without an error, the slots built from the list
\* positions (2, 3), (4, 5) and (6, 7) in this order; a shorter series ends
\* renderFrame with an IndexError.
C8_PairsTwoFourSix ==
    pc = "rendered" /\ weather.present /\ AllCodesKnown =>
        IF Len(weather.daily) >= 8
        THEN /\ frame.err = "none"
             /\ Len(frame.daily) = 3
             /\ \A k \in 1 .. 3 : frame.daily[k] = SlotOfPair(2 * k)
        ELSE frame.err = "IndexError"

\* Three daily slots drawn from a series of eight samples or more.
C8_Witness ==
    /\ pc = "rendered"
    /\ weather.present
    /\ AllCodesKnown
    /\ Len(weather.daily) >= 8
    /\ Len(frame.daily) = 3
    /\ frame.err = "none"

(***************************************************************************)
(* Claims about main(), checked under Spec.                                *)
(***************************************************************************)
InLog(call) == \E i \in 1 .. Len(log) : log[i] = call

AfterCache == pc \in {"render", "output", "done"}

\* C2: in a run with the cache option, the redraw is skipped exactly when the
\* cache file held a readable record, its days equal the days just computed,
\* and now is before the record's time plus the cache hours.
C2_SkipIffFresh ==
    options.cache /\ AfterCache =>
        (~redraw <=> /\ cached.kind = "ok"
                     /\ cached.days = days
                     /\ clock < cached.ts + options.cachehours)

\* A run that skipped the redraw.
C2_Witness ==
    /\ options.cache
    /\ pc = "output"
    /\ ~redraw
    /\ Len(days) > 0

\* C3: when the cache file exists and cannot be read, the run goes on with
\* redraw true, writes a fresh (days, now) record over the file, ends with no
\* error but one of renderFrame, and when it ends without one has rendered and
\* sent the frame.
C3_DamagedCacheIsAbsent ==
    options.cache /\ AfterCache /\ cached.kind \in Damaged =>
        /\ redraw
        /\ cachefile = [kind |-> "ok", days |-> days, ts |-> clock]
        /\ pc = "done" => exitreason \in {"none", "KeyError", "IndexError"}
        /\ pc = "done" /\ exitreason = "none" =>
              /\ exitcode = 0
              /\ InLog("renderFrame")
              /\ InLog("epd.display") \/ (InLog("save-b") /\ InLog("save-r"))

\* A run that read a record whose days are the current ones and whose time is
\* no datetime, and sent the frame.
C3_Witness ==
    /\ options.cache
    /\ pc = "done"
    /\ cached.kind = "badtime"
    /\ cached.days = days
    /\ Len(days) > 0
    /\ InLog("except")
    /\ InLog("epd.display")

\* C6: the exit status is not zero after a configuration error (the options
\* --input and --redinput not given together, weather.json missing, or lacking
\* any of its keys) and on a platform that is not Linux, and zero after a run
\* that ended normally.
C6_ExitStatus ==
    pc = "done" =>
        /\ exitreason \in {"args", "platform", "weather.json missing",
                           "weather.json malformed", "weather.json lacks a key"} =>
              exitcode # 0
        /\ exitreason = "none" => exitcode = 0

\* C9: over runs with the cache enabled and one value of --cachehours, a run
\* that looks at the cache when the last frame sent is the cache hours old or
\* older performs a redraw, however many runs in between found the cache
\* fresh.
C9_RedrawOncePerTTL ==
    /\ pc = "render"
    /\ options.cache
    /\ ~options.input
    /\ lastredraw.at >= 0
    /\ lastredraw.hours = options.cachehours
    /\ clock >= lastredraw.at + options.cachehours
    => redraw

Rank(call) ==
    CASE call = "epd.init" -> 0
      [] call = "getEvents" -> 1
      [] call = "eventsToDays" -> 2
      [] call = "forecast" -> 3
      [] call = "pickle.load" -> 4
      [] call = "except" -> 5
      [] call = "pickle.dump" -> 6
      [] call \in {"renderFrame", "Image.open"} -> 7
      [] call \in {"epd.Clear", "save-b"} -> 8
      [] call \in {"epd.display", "save-r"} -> 9
      [] call = "epd.sleep" -> 10

RenderCalls == {"renderFrame"}

SendCalls == {"epd.Clear", "epd.display", "save-b", "save-r"}

Finished == pc = "done" /\ exitreason = "none"

\* C10: the calls of a run happen in the order fetch, aggregate, cache, render,
\* send.  Without --input a run that ends normally has rendered and sent the
\* frame (display on the hardware, both files otherwise) exactly when redraw
\* is true, and after a fresh cache nothing is rendered, cleared, displayed or
\* saved.  With --input the cache is neither read nor written, nothing is
\* fetched or rendered, and a run that ends normally has sent the images.
C10_PipelineOrder ==
    /\ \A i, j \in 1 .. Len(log) : i < j => Rank(log[i]) < Rank(log[j])
    /\ ~redraw => \A i \in 1 .. Len(log) : log[i] \notin RenderCalls \cup SendCalls
    /\ Finished /\ ~options.input =>
          /\ InLog("renderFrame") <=> redraw
          /\ InLog("getEvents") /\ InLog("eventsToDays")
          /\ InLog("pickle.dump") <=> options.cache
          /\ ~options.output => (InLog("epd.display") <=> redraw)
          /\ ~options.output => (InLog("epd.Clear") <=> redraw /\ ~options.noclear)
          /\ options.output => (InLog("save-b") <=> redraw) /\ (InLog("save-r") <=> redraw)
          /\ options.output => ~InLog("epd.display") /\ ~InLog("epd.Clear")
    /\ options.input /\ pc # "idle" =>
          /\ redraw
          /\ cached = NoRecord
          /\ \A i \in 1 .. Len(log) :
                log[i] \notin {"getEvents", "eventsToDays", "forecast", "pickle.load",
                               "except", "pickle.dump", "renderFrame"}
          /\ Finished => IF options.output THEN InLog("save-b") /\ InLog("save-r")
                         ELSE InLog("epd.display")

\* A run that fetched, looked at a cache it found stale, rendered and sent.
C10_Witness ==
    /\ Finished
    /\ log = <<"epd.init", "getEvents", "eventsToDays", "forecast", "pickle.load",
               "pickle.dump", "renderFrame", "epd.Clear", "epd.display", "epd.sleep">>

HardwareCalls == SelectSeq(log, LAMBDA c : c \in {"epd.init", "epd.Clear", "epd.display", "epd.sleep"})

\* C11: without --output, a run that called epd.init and ended normally has
\* called epd.sleep, whether it redrew or found the cache fresh; and when a
\* frame is sent the hardware calls are init, Clear (unless --noclear),
\* display, sleep, in this order.
C11_DisplaySleeps ==
    /\ Finished /\ ~options.output /\ InLog("epd.init") => InLog("epd.sleep")
    /\ InLog("epd.display") =>
          HardwareCalls = <<"epd.init">>
                          \o (IF options.noclear THEN <<>> ELSE <<"epd.Clear">>)
                          \o <<"epd.display", "epd.sleep">>
====
